---------------------------- MODULE Spec2Model ----------------------------
(***************************************************************************)
(* Houseplant Comparison API (src/main.py, src/schemas.py).                *)
(*                                                                         *)
(* The service is a set of HTTP handlers over one datastore collection,    *)
(* "plant".  A handler touches shared state at most once (one find or one  *)
(* insert; db itself is a module constant set at import), so one request   *)
(* is one atomic step and every interleaving of requests is a sequence of  *)
(* these steps.                                                            *)
(*                                                                         *)
(* Encoding.                                                               *)
(*   - Free text (name, scientific_name, description, q) is a sequence of  *)
(*     one-character strings, so that substring and pattern matching are   *)
(*     computed character by character.  Enum values, tags and seed image  *)
(*     URLs are compared only for equality and are TLA+ strings.           *)
(*   - A Python value that may be None (an Optional field, an omitted      *)
(*     query parameter, a key missing from a JSON body) is None or         *)
(*     Some(v).                                                            *)
(*   - A generated ObjectId is a natural number; str() of it is its        *)
(*     decimal rendering.  A timestamp is a logical clock value.           *)
(*   - The Plant fields humidity, placement, growth_rate, ideal_temp_min_c *)
(*     and ideal_temp_max_c are optional, unconstrained and read by no     *)
(*     handler; they are left out of the bodies.                           *)
(*   - database.py is not part of the sources at hand: get_documents and   *)
(*     create_document follow the Document Gateway contract of the         *)
(*     specification, and a datastore that is configured answers.          *)
(***************************************************************************)
EXTENDS Integers, Sequences, FiniteSets, TLC

VARIABLES
    db,       \* "None" or "Database": the module-level handle of database.py
    env,      \* which of DATABASE_URL / DATABASE_NAME are set in the process
    store,    \* the documents of collection "plant", in insertion order
    nextId,   \* the next identifier the datastore generates
    now,      \* the clock create_document reads
    issued,   \* identifiers returned to clients by POST /plants
    req,      \* the request handled last
    resp      \* its response: status, and body (a list of records), json
              \* (an object), detail (an HTTPException) or errors (the fields
              \* that failed validation)

vars == <<db, env, store, nextId, now, issued, req, resp>>

---------------------------------------------------------------------------
(* Bounds *)

MaxStore == 2        \* documents the collection may hold
LimitRange == 6      \* limit ranges over -LimitRange .. LimitRange
MaxQLen == 2         \* length of a search string q in the predicate cases

(* list_plants: limit: int = 50 *)

DefaultLimit == 50

---------------------------------------------------------------------------
(* Optional values and strings *)

None == <<>>
Some(v) == <<v>>
IsSome(o) == o # None
Val(o) == o[1]

Min(a, b) == IF a <= b THEN a ELSE b
Max(a, b) == IF a >= b THEN a ELSE b

\* bool(s) of an Optional[str] holding an enum value or a tag
TruthyStr(o) == IsSome(o) /\ Val(o) # ""
\* bool(s) of an Optional[str] holding free text
TruthyText(o) == IsSome(o) /\ Len(Val(o)) > 0

UpperCase == <<"A", "B", "C", "D", "E", "F", "G", "H", "I", "J", "K", "L", "M",
               "N", "O", "P", "Q", "R", "S", "T", "U", "V", "W", "X", "Y", "Z">>
LowerCase == <<"a", "b", "c", "d", "e", "f", "g", "h", "i", "j", "k", "l", "m",
               "n", "o", "p", "q", "r", "s", "t", "u", "v", "w", "x", "y", "z">>

Lower(c) ==
    IF \E i \in DOMAIN UpperCase : UpperCase[i] = c
    THEN LowerCase[CHOOSE i \in DOMAIN UpperCase : UpperCase[i] = c]
    ELSE c

Digits == <<"0", "1", "2", "3", "4", "5", "6", "7", "8", "9">>

RECURSIVE Str(_)
\* str() of an identifier or a timestamp
Str(n) ==
    IF n < 10 THEN <<Digits[n + 1]>>
    ELSE Str(n \div 10) \o <<Digits[(n % 10) + 1]>>

\* seq[:limit]
PySlice(seq, limit) ==
    IF limit >= 0
    THEN SubSeq(seq, 1, Min(limit, Len(seq)))
    ELSE SubSeq(seq, 1, Max(Len(seq) + limit, 0))

---------------------------------------------------------------------------
(* schemas.py *)

LightLevel == {"low", "medium", "bright"}
CareLevel == {"easy", "moderate", "advanced"}
WaterNeed == {"low", "moderate", "high"}
SizeClass == {"small", "medium", "large"}

\* HttpUrl: an http or https URL with a host
IsHttpUrl(u) == u.scheme \in {"http", "https"} /\ u.host # ""

\* ValidationErrors with price declared without ge=0
ValidationErrorsNoPriceBound(body) ==
    {f \in {"name", "light", "water", "care_level"} : ~IsSome(body[f])}
    \cup (IF IsSome(body.light) /\ Val(body.light) \notin LightLevel
          THEN {"light"} ELSE {})
    \cup (IF IsSome(body.water) /\ Val(body.water) \notin WaterNeed
          THEN {"water"} ELSE {})
    \cup (IF IsSome(body.care_level) /\ Val(body.care_level) \notin CareLevel
          THEN {"care_level"} ELSE {})
    \cup (IF IsSome(body.size) /\ Val(body.size) \notin SizeClass
          THEN {"size"} ELSE {})
    \cup (IF IsSome(body.image_url) /\ ~IsHttpUrl(Val(body.image_url))
          THEN {"image_url"} ELSE {})

\* ValidationErrors with size declared as str instead of SizeClass
ValidationErrorsSizeAnyStr(body) ==
    {f \in {"name", "light", "water", "care_level"} : ~IsSome(body[f])}
    \cup (IF IsSome(body.light) /\ Val(body.light) \notin LightLevel
          THEN {"light"} ELSE {})
    \cup (IF IsSome(body.water) /\ Val(body.water) \notin WaterNeed
          THEN {"water"} ELSE {})
    \cup (IF IsSome(body.care_level) /\ Val(body.care_level) \notin CareLevel
          THEN {"care_level"} ELSE {})
    \cup (IF IsSome(body.image_url) /\ ~IsHttpUrl(Val(body.image_url))
          THEN {"image_url"} ELSE {})
    \cup (IF IsSome(body.price) /\ ~(Val(body.price) >= 0)
          THEN {"price"} ELSE {})

\* The fields of a request body that fail validation against Plant.
ValidationErrors(body) ==
    {f \in {"name", "light", "water", "care_level"} : ~IsSome(body[f])}
    \cup (IF IsSome(body.light) /\ Val(body.light) \notin LightLevel
          THEN {"light"} ELSE {})
    \cup (IF IsSome(body.water) /\ Val(body.water) \notin WaterNeed
          THEN {"water"} ELSE {})
    \cup (IF IsSome(body.care_level) /\ Val(body.care_level) \notin CareLevel
          THEN {"care_level"} ELSE {})
    \cup (IF IsSome(body.size) /\ Val(body.size) \notin SizeClass
          THEN {"size"} ELSE {})
    \cup (IF IsSome(body.image_url) /\ ~IsHttpUrl(Val(body.image_url))
          THEN {"image_url"} ELSE {})
    \cup (IF IsSome(body.price) /\ ~(Val(body.price) >= 0)
          THEN {"price"} ELSE {})

\* The Plant model built from a valid body: defaults filled in.
Plant(body) ==
    [name |-> Val(body.name),
     scientific_name |-> body.scientific_name,
     description |-> body.description,
     image_url |-> body.image_url,
     light |-> Val(body.light),
     water |-> Val(body.water),
     care_level |-> Val(body.care_level),
     pet_friendly |-> IF IsSome(body.pet_friendly) THEN Val(body.pet_friendly) ELSE FALSE,
     size |-> IF IsSome(body.size) THEN Val(body.size) ELSE "medium",
     price |-> body.price,
     tags |-> body.tags]

\* Plant.model_json_schema(), as far as the enum and required constraints go
PlantSchema ==
    [required |-> {"name", "light", "water", "care_level"},
     light |-> LightLevel,
     water |-> WaterNeed,
     care_level |-> CareLevel,
     size |-> SizeClass]

---------------------------------------------------------------------------
(* main.py: seed data *)

Seed1 ==
    [name |-> <<"M", "o", "n", "s", "t", "e", "r", "a", " ", "D", "e", "l", "i", "c", "i", "o", "s", "a">>,
     scientific_name |-> Some(<<"M", "o", "n", "s", "t", "e", "r", "a", " ", "d", "e", "l", "i", "c", "i", "o", "s", "a">>),
     description |-> Some(
       <<"I", "c", "o", "n", "i", "c", " ", "s", "p", "l", "i", "t", " ", "l", "e", "a",
         "v", "e", "s", ",", " ", "f", "a", "s", "t", " ", "g", "r", "o", "w", "e", "r",
         " ", "a", "n", "d", " ", "f", "o", "r", "g", "i", "v", "i", "n", "g", ".">>),
     image_url |-> Some("https://images.unsplash.com/photo-1519681393784-d120267933ba?q=80&w=1200&auto=format&fit=crop"),
     light |-> "bright", water |-> "moderate", care_level |-> "easy",
     pet_friendly |-> FALSE, size |-> "large",
     tags |-> Some(<<"statement", "fast-growing">>)]

Seed2 ==
    [name |-> <<"S", "n", "a", "k", "e", " ", "P", "l", "a", "n", "t">>,
     scientific_name |-> Some(<<"S", "a", "n", "s", "e", "v", "i", "e", "r", "i", "a", " ", "t", "r", "i", "f", "a", "s", "c", "i", "a", "t", "a">>),
     description |-> Some(
       <<"T", "h", "r", "i", "v", "e", "s", " ", "o", "n", " ", "n", "e", "g", "l", "e",
         "c", "t", ",", " ", "g", "r", "e", "a", "t", " ", "f", "o", "r", " ", "l", "o",
         "w", " ", "l", "i", "g", "h", "t", ".">>),
     image_url |-> Some("https://images.unsplash.com/photo-1587300003388-59208cc962cb?q=80&w=1200&auto=format&fit=crop"),
     light |-> "low", water |-> "low", care_level |-> "easy",
     pet_friendly |-> FALSE, size |-> "medium",
     tags |-> Some(<<"air-purifier", "beginner">>)]

Seed3 ==
    [name |-> <<"Z", "Z", " ", "P", "l", "a", "n", "t">>,
     scientific_name |-> Some(<<"Z", "a", "m", "i", "o", "c", "u", "l", "c", "a", "s", " ", "z", "a", "m", "i", "i", "f", "o", "l", "i", "a">>),
     description |-> Some(
       <<"G", "l", "o", "s", "s", "y", " ", "l", "e", "a", "v", "e", "s", ",", " ", "t",
         "o", "l", "e", "r", "a", "t", "e", "s", " ", "l", "o", "w", " ", "l", "i", "g",
         "h", "t", " ", "a", "n", "d", " ", "i", "n", "f", "r", "e", "q", "u", "e", "n",
         "t", " ", "w", "a", "t", "e", "r", "i", "n", "g", ".">>),
     image_url |-> Some("https://images.unsplash.com/photo-1620916566398-579615a6df65?q=80&w=1200&auto=format&fit=crop"),
     light |-> "low", water |-> "low", care_level |-> "easy",
     pet_friendly |-> FALSE, size |-> "medium",
     tags |-> Some(<<"hardy", "office">>)]

Seed4 ==
    [name |-> <<"P", "o", "t", "h", "o", "s">>,
     scientific_name |-> Some(<<"E", "p", "i", "p", "r", "e", "m", "n", "u", "m", " ", "a", "u", "r", "e", "u", "m">>),
     description |-> Some(
       <<"V", "i", "n", "i", "n", "g", " ", "p", "l", "a", "n", "t", " ", "t", "h", "a",
         "t", " ", "a", "d", "a", "p", "t", "s", " ", "t", "o", " ", "m", "a", "n", "y",
         " ", "c", "o", "n", "d", "i", "t", "i", "o", "n", "s", ".">>),
     image_url |-> Some("https://images.unsplash.com/photo-1601482256584-5f934a95a204?q=80&w=1200&auto=format&fit=crop"),
     light |-> "medium", water |-> "moderate", care_level |-> "easy",
     pet_friendly |-> FALSE, size |-> "medium",
     tags |-> Some(<<"trailing", "versatile">>)]

Seed5 ==
    [name |-> <<"P", "a", "r", "l", "o", "r", " ", "P", "a", "l", "m">>,
     scientific_name |-> Some(<<"C", "h", "a", "m", "a", "e", "d", "o", "r", "e", "a", " ", "e", "l", "e", "g", "a", "n", "s">>),
     description |-> Some(
       <<"P", "e", "t", "-", "f", "r", "i", "e", "n", "d", "l", "y", " ", "p", "a", "l",
         "m", " ", "t", "h", "a", "t", " ", "t", "o", "l", "e", "r", "a", "t", "e", "s",
         " ", "l", "o", "w", " ", "l", "i", "g", "h", "t", ".">>),
     image_url |-> Some("https://images.unsplash.com/photo-1501004318641-b39e6451bec6?q=80&w=1200&auto=format&fit=crop"),
     light |-> "low", water |-> "moderate", care_level |-> "moderate",
     pet_friendly |-> TRUE, size |-> "medium",
     tags |-> Some(<<"pet-safe", "palm">>)]
_seed_plants == <<Seed1, Seed2, Seed3, Seed4, Seed5>>

---------------------------------------------------------------------------
(* main.py: the filter list_plants builds, and how the datastore reads it *)

EmptyDict == [k \in {} |-> None]

RegexClause(field, q) == [field |-> field, regex |-> q, options |-> "i"]

\* filt with `if pet_friendly:` in place of `if pet_friendly is not None:`
BuildFilterPetTruthy(p) ==
    (IF TruthyText(p.q)
     THEN "$or" :> <<RegexClause("name", Val(p.q)),
                     RegexClause("scientific_name", Val(p.q)),
                     RegexClause("description", Val(p.q))>>
     ELSE EmptyDict)
    @@ (IF TruthyStr(p.light) THEN "light" :> Val(p.light) ELSE EmptyDict)
    @@ (IF TruthyStr(p.water) THEN "water" :> Val(p.water) ELSE EmptyDict)
    @@ (IF TruthyStr(p.care_level) THEN "care_level" :> Val(p.care_level) ELSE EmptyDict)
    @@ (IF IsSome(p.pet_friendly) /\ Val(p.pet_friendly) THEN "pet_friendly" :> Val(p.pet_friendly) ELSE EmptyDict)
    @@ (IF TruthyStr(p.size) THEN "size" :> Val(p.size) ELSE EmptyDict)
    @@ (IF TruthyStr(p.tag) THEN "tags" :> [in |-> <<Val(p.tag)>>] ELSE EmptyDict)

\* filt with pet_friendly set to bool(pet_friendly) unconditionally
BuildFilterPetAlways(p) ==
    (IF TruthyText(p.q)
     THEN "$or" :> <<RegexClause("name", Val(p.q)),
                     RegexClause("scientific_name", Val(p.q)),
                     RegexClause("description", Val(p.q))>>
     ELSE EmptyDict)
    @@ (IF TruthyStr(p.light) THEN "light" :> Val(p.light) ELSE EmptyDict)
    @@ (IF TruthyStr(p.water) THEN "water" :> Val(p.water) ELSE EmptyDict)
    @@ (IF TruthyStr(p.care_level) THEN "care_level" :> Val(p.care_level) ELSE EmptyDict)
    @@ ("pet_friendly" :> (IsSome(p.pet_friendly) /\ Val(p.pet_friendly)))
    @@ (IF TruthyStr(p.size) THEN "size" :> Val(p.size) ELSE EmptyDict)
    @@ (IF TruthyStr(p.tag) THEN "tags" :> [in |-> <<Val(p.tag)>>] ELSE EmptyDict)

\* filt: the dict the handler builds from the query parameters
BuildFilter(p) ==
    (IF TruthyText(p.q)
     THEN "$or" :> <<RegexClause("name", Val(p.q)),
                     RegexClause("scientific_name", Val(p.q)),
                     RegexClause("description", Val(p.q))>>
     ELSE EmptyDict)
    @@ (IF TruthyStr(p.light) THEN "light" :> Val(p.light) ELSE EmptyDict)
    @@ (IF TruthyStr(p.water) THEN "water" :> Val(p.water) ELSE EmptyDict)
    @@ (IF TruthyStr(p.care_level) THEN "care_level" :> Val(p.care_level) ELSE EmptyDict)
    @@ (IF IsSome(p.pet_friendly) THEN "pet_friendly" :> Val(p.pet_friendly) ELSE EmptyDict)
    @@ (IF TruthyStr(p.size) THEN "size" :> Val(p.size) ELSE EmptyDict)
    @@ (IF TruthyStr(p.tag) THEN "tags" :> [in |-> <<Val(p.tag)>>] ELSE EmptyDict)

\* One pattern character against one text character: "." is any character,
\* every other character of the alphabet used here stands for itself.
CharMatches(pc, tc, options) ==
    \/ pc = "."
    \/ IF options = "i" THEN Lower(pc) = Lower(tc) ELSE pc = tc

\* {"$regex": pattern, "$options": options} on a text: an unanchored search.
RegexSearch(pattern, text, options) ==
    \E start \in 1..(Len(text) + 1) :
        /\ start + Len(pattern) - 1 <= Len(text)
        /\ \A j \in 1..Len(pattern) :
               CharMatches(pattern[j], text[start + j - 1], options)

\* The text a document holds in a field, None when the field is null.
TextField(doc, field) ==
    IF field = "name" THEN Some(doc.name) ELSE doc[field]

ClauseMatches(clause, doc) ==
    LET t == TextField(doc, clause.field)
    IN  IsSome(t) /\ RegexSearch(clause.regex, Val(t), clause.options)

\* Whether doc is found under filt, read as the query document it is: every
\* key holds; "$or" holds when one of its clauses does, {"$in": values} when
\* the array field holds one of the values, a plain value when the field
\* equals it.
Matches(filt, doc) ==
    \A k \in DOMAIN filt :
        IF k = "$or"
        THEN \E i \in DOMAIN filt[k] : ClauseMatches(filt[k][i], doc)
        ELSE IF k = "tags"
        THEN /\ IsSome(doc.tags)
             /\ \E i \in DOMAIN Val(doc.tags) : \E j \in DOMAIN filt[k].in :
                    Val(doc.tags)[i] = filt[k].in[j]
        ELSE doc[k] = filt[k]

---------------------------------------------------------------------------
(* The Document Gateway (database.py), from its contract *)

Orders(n) ==
    {f \in [1..n -> 1..n] : \A i, j \in 1..n : i # j => f[i] # f[j]}

\* get_documents(collection, filter, limit): up to limit matching documents
\* in the datastore's natural order, which need not be insertion order.
\* The set of the results it may return.
GetDocuments(collection, filt, limit) ==
    LET Found(d) == Matches(filt, d)
        found == SelectSeq(collection, Found)
        count == Min(Max(limit, 0), Len(found))
    IN  {[i \in 1..count |-> found[f[i]]] : f \in Orders(Len(found))}

\* create_document(collection, record): the document persisted for a Plant,
\* with its generated identifier and its creation and update timestamps.
CreateDocument(plant, id, time) ==
    [_id |-> id, created_at |-> time, updated_at |-> time] @@ plant

---------------------------------------------------------------------------
(* main.py: the handlers *)

\* lines 78-81: identifiers and timestamps rendered as strings
Render(d) ==
    [d EXCEPT !._id = Str(d._id),
              !.created_at = Str(d.created_at),
              !.updated_at = Str(d.updated_at)]

RenderAll(docs) == [i \in 1..Len(docs) |-> Render(docs[i])]

\* GET /
ReadRoot ==
    /\ req' = [kind |-> "GET /"]
    /\ resp' = [status |-> 200,
                json |-> [message |-> "Houseplant Comparison Backend is running"]]
    /\ UNCHANGED <<db, env, store, nextId, now, issued>>

\* GET /schema
GetSchema ==
    /\ req' = [kind |-> "GET /schema"]
    /\ resp' = [status |-> 200, json |-> [plant |-> PlantSchema]]
    /\ UNCHANGED <<db, env, store, nextId, now, issued>>

\* GET /plants that stamps updated_at on the stored documents when reading
ListPlantsTouching(p, limit) ==
    /\ req' = [kind |-> "GET /plants", query |-> p, limit |-> limit]
    /\ IF db = "None"
       THEN /\ resp' = [status |-> 200, body |-> PySlice(_seed_plants, limit)]
            /\ store' = store
       ELSE /\ \E docs \in GetDocuments(store, BuildFilter(p), limit) :
                   resp' = [status |-> 200, body |-> RenderAll(docs)]
            /\ store' = [i \in 1..Len(store) |-> [store[i] EXCEPT !.updated_at = now]]
    /\ UNCHANGED <<db, env, nextId, now, issued>>

\* GET /plants
ListPlants(p, limit) ==
    /\ req' = [kind |-> "GET /plants", query |-> p, limit |-> limit]
    /\ IF db = "None"
       THEN resp' = [status |-> 200, body |-> PySlice(_seed_plants, limit)]
       ELSE \E docs \in GetDocuments(store, BuildFilter(p), limit) :
                resp' = [status |-> 200, body |-> RenderAll(docs)]
    /\ UNCHANGED <<db, env, store, nextId, now, issued>>

\* POST /plants that looks at db before the body is validated
CreatePlantDbFirst(body) ==
    /\ req' = [kind |-> "POST /plants", body |-> body]
    /\ IF db = "None"
       THEN /\ resp' = [status |-> 503, detail |-> "Database not configured"]
            /\ UNCHANGED <<store, nextId, now, issued>>
       ELSE IF ValidationErrors(body) # {}
       THEN /\ resp' = [status |-> 422, errors |-> ValidationErrors(body)]
            /\ UNCHANGED <<store, nextId, now, issued>>
       ELSE /\ Len(store) < MaxStore
            /\ store' = Append(store, CreateDocument(Plant(body), nextId, now))
            /\ nextId' = nextId + 1
            /\ now' = now + 1
            /\ issued' = issued \cup {Str(nextId)}
            /\ resp' = [status |-> 200, json |-> [id |-> Str(nextId)]]
    /\ UNCHANGED <<db, env>>

\* POST /plants: the framework validates the body against Plant before the
\* handler body runs.
CreatePlant(body) ==
    /\ req' = [kind |-> "POST /plants", body |-> body]
    /\ IF ValidationErrors(body) # {}
       THEN /\ resp' = [status |-> 422, errors |-> ValidationErrors(body)]
            /\ UNCHANGED <<store, nextId, now, issued>>
       ELSE IF db = "None"
       THEN /\ resp' = [status |-> 503, detail |-> "Database not configured"]
            /\ UNCHANGED <<store, nextId, now, issued>>
       ELSE /\ Len(store) < MaxStore
            /\ store' = Append(store, CreateDocument(Plant(body), nextId, now))
            /\ nextId' = nextId + 1
            /\ now' = now + 1
            /\ issued' = issued \cup {Str(nextId)}
            /\ resp' = [status |-> 200, json |-> [id |-> Str(nextId)]]
    /\ UNCHANGED <<db, env>>

\* GET /test; working: whether db.list_collection_names() answers.  The
\* status strings stand without their leading marks and without the text of
\* the exception.
TestDatabase(working) ==
    /\ req' = [kind |-> "GET /test"]
    /\ resp' =
         [status |-> 200,
          json |->
            [backend |-> "Running",
             database |->
                IF db = "None" THEN "Available but not initialized"
                ELSE IF working THEN "Connected & Working"
                ELSE "Connected but Error",
             database_url |-> IF env.DATABASE_URL THEN "Set" ELSE "Not Set",
             database_name |-> IF env.DATABASE_NAME THEN "Set" ELSE "Not Set",
             connection_status |-> IF db = "None" THEN "Not Connected" ELSE "Connected",
             collections |->
                IF db # "None" /\ working /\ Len(store) > 0
                THEN <<"plant">> ELSE <<>>]]
    /\ UNCHANGED <<db, env, store, nextId, now, issued>>

---------------------------------------------------------------------------
(* Requests *)

Text_Ab == <<"A", "b">>
Text_aB == <<"a", "B">>
Text_bdot == <<"b", ".">>
Text_dota == <<".", "a">>
Text_a == <<"a">>

GoodUrl == [scheme |-> "https", host |-> "images.example"]
BadUrl == [scheme |-> "ftp", host |-> "images.example"]

Body1 ==
    [name |-> Some(Text_Ab), scientific_name |-> None, description |-> Some(Text_dota),
     image_url |-> None, light |-> Some("low"), water |-> Some("low"),
     care_level |-> Some("easy"), pet_friendly |-> None, size |-> None,
     price |-> None, tags |-> Some(<<"palm">>)]

Body2 ==
    [name |-> Some(Text_bdot), scientific_name |-> Some(Text_aB), description |-> None,
     image_url |-> Some(GoodUrl), light |-> Some("bright"), water |-> Some("high"),
     care_level |-> Some("advanced"), pet_friendly |-> Some(TRUE), size |-> Some("large"),
     price |-> Some(0), tags |-> None]

ValidBodies ==
    {Body1, Body2,
     [Body1 EXCEPT !.name = Some(Text_a), !.price = Some(3)],
     [Body1 EXCEPT !.pet_friendly = Some(TRUE), !.tags = Some(<<"hardy", "palm">>)],
     [Body2 EXCEPT !.light = Some("low"), !.size = Some("medium"),
                   !.pet_friendly = Some(FALSE)]}

InvalidBodies ==
    {[Body1 EXCEPT !.name = None],
     [Body1 EXCEPT !.light = None],
     [Body1 EXCEPT !.water = None],
     [Body1 EXCEPT !.care_level = None],
     [Body1 EXCEPT !.light = Some("dim")],
     [Body1 EXCEPT !.water = Some("daily")],
     [Body1 EXCEPT !.care_level = Some("hard")],
     [Body1 EXCEPT !.size = Some("huge")],
     [Body1 EXCEPT !.price = Some(-1)],
     [Body2 EXCEPT !.image_url = Some(BadUrl)],
     [Body2 EXCEPT !.name = None, !.price = Some(-1)]}

Bodies == ValidBodies \cup InvalidBodies

NoCriteria ==
    [q |-> None, light |-> None, water |-> None, care_level |-> None,
     pet_friendly |-> None, size |-> None, tag |-> None]

\* The queries sent with the default limit
Queries ==
    [q : {None, Some(Text_a)},
     light : {None, Some(""), Some("low")},
     water : {None},
     care_level : {None},
     pet_friendly : {None, Some(TRUE), Some(FALSE)},
     size : {None},
     tag : {None, Some("palm")}]
    \cup {[NoCriteria EXCEPT !.water = Some("low")],
          [NoCriteria EXCEPT !.care_level = Some("easy")],
          [NoCriteria EXCEPT !.size = Some("medium")],
          [NoCriteria EXCEPT !.q = Some(<<".">>)],
          [q |-> Some(Text_a), light |-> Some("low"), water |-> Some("low"),
           care_level |-> Some("easy"), pet_friendly |-> Some(FALSE),
           size |-> Some("medium"), tag |-> Some("palm")]}

\* The queries sent with every limit
LimitQueries == {NoCriteria, [NoCriteria EXCEPT !.light = Some("low")]}

Limits == (-LimitRange)..LimitRange

ListRequests ==
    {<<p, DefaultLimit>> : p \in Queries} \cup (LimitQueries \X Limits)

---------------------------------------------------------------------------
(* The service *)

Init ==
    /\ db \in {"None", "Database"}
    /\ env \in [DATABASE_URL : BOOLEAN, DATABASE_NAME : BOOLEAN]
    /\ db = "Database" => env.DATABASE_URL /\ env.DATABASE_NAME
    /\ store = <<>>
    /\ nextId = 1
    /\ now = 1
    /\ issued = {}
    /\ req = [kind |-> "none"]
    /\ resp = [status |-> 0]

Next ==
    \/ ReadRoot
    \/ GetSchema
    \/ \E working \in BOOLEAN : TestDatabase(working)
    \/ \E r \in ListRequests : ListPlants(r[1], r[2])
    \/ \E body \in Bodies : CreatePlant(body)

Spec == Init /\ [][Next]_vars

---------------------------------------------------------------------------
(* The predicate of list_plants on one stored document: a datastore holding *)
(* one plant created through POST /plants, and one GET /plants awaiting its *)
(* handler.                                                                *)

QAlphabet == {"a", "A", "b", "."}

\* Every string over QAlphabet of length at most n
Strings(n) == UNION {[1..k -> QAlphabet] : k \in 0..n}

TextBodies ==
    {[Body1 EXCEPT !.name = Some(n), !.scientific_name = s, !.description = d] :
        n \in {Text_Ab, Text_bdot, Text_a},
        s \in {None, Some(Text_aB)},
        d \in {None, Some(Text_dota)}}

TextQueries ==
    {[NoCriteria EXCEPT !.q = q, !.light = l] :
        q \in {None} \cup {Some(s) : s \in Strings(MaxQLen)},
        l \in {None, Some("low"), Some("bright")}}

FieldBodies ==
    [name : {Some(Text_Ab)}, scientific_name : {None}, description : {None},
     image_url : {None}, price : {None},
     light : {Some("low"), Some("bright")},
     water : {Some("low"), Some("high")},
     care_level : {Some("easy"), Some("advanced")},
     pet_friendly : {None, Some(TRUE)},
     size : {None, Some("large")},
     tags : {None, Some(<<"palm">>), Some(<<"hardy", "palm">>)}]

FieldQueries ==
    [q : {None},
     light : {None, Some(""), Some("low")},
     water : {None, Some(""), Some("low")},
     care_level : {None, Some(""), Some("easy")},
     pet_friendly : {None, Some(TRUE), Some(FALSE)},
     size : {None, Some(""), Some("medium")},
     tag : {None, Some(""), Some("palm")}]

FilterCases == (TextBodies \X TextQueries) \cup (FieldBodies \X FieldQueries)

InitFilter ==
    /\ db = "Database"
    /\ env = [DATABASE_URL |-> TRUE, DATABASE_NAME |-> TRUE]
    /\ nextId = 2
    /\ now = 2
    /\ issued = {Str(1)}
    /\ resp = [status |-> 0]
    /\ \E c \in FilterCases :
          /\ store = <<CreateDocument(Plant(c[1]), 1, 1)>>
          /\ req = [kind |-> "pending", query |-> c[2], limit |-> DefaultLimit]

HandlePending ==
    /\ req.kind = "pending"
    /\ ListPlants(req.query, req.limit)

NextFilter == HandlePending

SpecFilter == InitFilter /\ [][NextFilter]_vars

---------------------------------------------------------------------------
(* What the claims speak of *)

IsList == req.kind = "GET /plants"
IsCreate == req.kind = "POST /plants"

\* s occurs in text as a case-insensitive substring
ContainsCI(text, s) ==
    \E start \in 1..(Len(text) + 1) :
        /\ start + Len(s) - 1 <= Len(text)
        /\ \A j \in 1..Len(s) : Lower(s[j]) = Lower(text[start + j - 1])

\* s occurs in at least one of name, scientific_name, description
SearchHolds(s, d) ==
    \/ ContainsCI(d.name, s)
    \/ IsSome(d.scientific_name) /\ ContainsCI(Val(d.scientific_name), s)
    \/ IsSome(d.description) /\ ContainsCI(Val(d.description), s)

HasTag(d, t) == IsSome(d.tags) /\ \E i \in DOMAIN Val(d.tags) : Val(d.tags)[i] = t

\* d satisfies every criterion among light .. tag that the request carries
SatisfiesSupplied(p, d) ==
    /\ IsSome(p.light) => d.light = Val(p.light)
    /\ IsSome(p.water) => d.water = Val(p.water)
    /\ IsSome(p.care_level) => d.care_level = Val(p.care_level)
    /\ IsSome(p.pet_friendly) => d.pet_friendly = Val(p.pet_friendly)
    /\ IsSome(p.size) => d.size = Val(p.size)
    /\ IsSome(p.tag) => HasTag(d, Val(p.tag))

\* d satisfies every criterion among light .. tag that the request carries
\* with a non-empty value
SatisfiesNonEmpty(p, d) ==
    /\ (IsSome(p.light) /\ Val(p.light) # "") => d.light = Val(p.light)
    /\ (IsSome(p.water) /\ Val(p.water) # "") => d.water = Val(p.water)
    /\ (IsSome(p.care_level) /\ Val(p.care_level) # "") => d.care_level = Val(p.care_level)
    /\ IsSome(p.pet_friendly) => d.pet_friendly = Val(p.pet_friendly)
    /\ (IsSome(p.size) /\ Val(p.size) # "") => d.size = Val(p.size)
    /\ (IsSome(p.tag) /\ Val(p.tag) # "") => HasTag(d, Val(p.tag))

\* The body fails the Plant schema in one of the ways C6 lists
FailsSchema(body) ==
    \/ body.name = None \/ body.light = None
    \/ body.water = None \/ body.care_level = None
    \/ body.light # None /\ body.light[1] \notin {"low", "medium", "bright"}
    \/ body.water # None /\ body.water[1] \notin {"low", "moderate", "high"}
    \/ body.care_level # None /\ body.care_level[1] \notin {"easy", "moderate", "advanced"}
    \/ body.size # None /\ body.size[1] \notin {"small", "medium", "large"}
    \/ body.price # None /\ body.price[1] < 0

\* The body fails the Plant schema in any way
FailsValidation(body) ==
    \/ FailsSchema(body)
    \/ body.image_url # None /\ body.image_url[1].scheme \notin {"http", "https"}

SeedNames(records) == [i \in 1..Len(records) |-> records[i].name]

IsPrefix(s, t) == Len(s) <= Len(t) /\ s = SubSeq(t, 1, Len(s))

---------------------------------------------------------------------------
(* Claims *)

\* C1: every record of a GET /plants response satisfies every criterion the
\* request supplied (q as a case-insensitive substring of name, scientific
\* name or description), with or without a datastore.
C1_ReturnedRecordsSatisfyCriteria ==
    IsList =>
        \A i \in 1..Len(resp.body) :
            /\ SatisfiesSupplied(req.query, resp.body[i])
            /\ IsSome(req.query.q) => SearchHolds(Val(req.query.q), resp.body[i])

\* C2 as stated: with a datastore, the predicate list_plants builds matches
\* the stored record if and only if the record satisfies every criterion
\* among light, water, care_level, pet_friendly, size and tag that the
\* request supplied.
C2_MatchesIffSupplied ==
    (IsList /\ db = "Database" /\ req.query.q = None) =>
        (Matches(BuildFilter(req.query), store[1])
            <=> SatisfiesSupplied(req.query, store[1]))

\* C2 as amended: with a datastore, the predicate list_plants builds matches
\* the stored record if and only if the record satisfies every criterion
\* among light, water, care_level, size and tag supplied with a non-empty
\* value and pet_friendly when supplied; an absent or empty parameter
\* imposes no constraint, a request with no criteria matches every record,
\* and the response holds the record exactly when the predicate matches it.
C2_MatchesIffNonEmpty ==
    (IsList /\ db = "Database" /\ req.query.q = None) =>
        /\ Matches(BuildFilter(req.query), store[1])
              <=> SatisfiesNonEmpty(req.query, store[1])
        /\ req.query = NoCriteria => Matches(BuildFilter(req.query), store[1])
        /\ Len(resp.body) = 1 <=> Matches(BuildFilter(req.query), store[1])

\* C2 witness: a conjunction of three criteria was applied and matched, and
\* another was applied and excluded the record.
C2_Witness ==
    /\ IsList /\ db = "Database" /\ Len(store) = 1
    /\ req.query.q = None
    /\ req.query.light = Some("low")
    /\ req.query.pet_friendly = Some(FALSE)
    /\ req.query.tag = Some("palm")
    /\ req.query.size = Some("")
    /\ Len(resp.body) = 1

\* C3: without a datastore, GET /plants returns a prefix of the seed list in
\* its fixed order holding at most max(limit, 0) records, and all five when
\* limit is at least 5.
C3_SeedPrefixTruncatedToLimit ==
    (IsList /\ db = "None") =>
        /\ IsPrefix(resp.body, _seed_plants)
        /\ SeedNames(_seed_plants) =
              <<Seed1.name, Seed2.name, Seed3.name, Seed4.name, Seed5.name>>
        /\ Len(resp.body) <= Max(req.limit, 0)
        /\ req.limit >= 5 => Len(resp.body) = 5

\* C4: without a datastore, GET /plants?light=low with the default limit
\* returns exactly the seed records whose light is "low": Snake Plant, ZZ
\* Plant and Parlor Palm.
C4_SeedFilteredByLight ==
    (IsList /\ db = "None" /\ req.limit = DefaultLimit
        /\ req.query = [NoCriteria EXCEPT !.light = Some("low")]) =>
        /\ resp.body = <<Seed2, Seed3, Seed5>>
        /\ \A i \in 1..Len(resp.body) : resp.body[i].light = "low"

\* C5 as stated: every POST /plants made without a datastore is answered
\* with 503 and creates no record, whatever the body.
C5_NoDatastoreAlways503 ==
    (IsCreate /\ db = "None") => (resp.status = 503 /\ store = <<>>)

\* C5 as amended: a POST /plants made without a datastore is answered with
\* 503 when its body passes schema validation and with 422 when it does not,
\* and creates no record whatever the body.
C5_NoDatastore503Or422 ==
    (IsCreate /\ db = "None") =>
        /\ resp.status = IF FailsValidation(req.body) THEN 422 ELSE 503
        /\ store = <<>>
        /\ issued = {}

\* C5 witness: a valid body was posted without a datastore and refused.
C5_Witness ==
    /\ IsCreate /\ db = "None"
    /\ ~FailsValidation(req.body)
    /\ resp.status = 503
    /\ store = <<>>

\* C6: a POST /plants whose body fails schema validation is answered with
\* 422 and leaves the stored records unchanged, with or without a datastore.
C6_InvalidBodyRejected ==
    [][(req'.kind = "POST /plants" /\ FailsSchema(req'.body)) =>
          (resp'.status = 422 /\ store' = store /\ issued' = issued)]_vars

\* C6 witness: an invalid body was rejected while the datastore held records.
C6_Witness ==
    /\ IsCreate /\ db = "Database"
    /\ FailsSchema(req.body)
    /\ resp.status = 422
    /\ Len(store) > 0

\* C7: with a datastore, a POST /plants with a valid body persists exactly
\* one new record and returns its generated identifier; that identifier
\* differs from every other stored identifier; and a later GET /plants with
\* no criteria and a limit of at least the number of stored records holds
\* the record of every identifier returned so far.
C7_CreatedOnceUniqueAndListed ==
    /\ [][(req'.kind = "POST /plants" /\ db = "Database"
             /\ ~FailsValidation(req'.body)) =>
            /\ resp'.status = 200
            /\ Len(store') = Len(store) + 1
            /\ SubSeq(store', 1, Len(store)) = store
            /\ resp'.json.id = Str(store'[Len(store')]._id)
            /\ \A i \in 1..Len(store) : store[i]._id # store'[Len(store')]._id
            /\ store'[Len(store')].name = Val(req'.body.name)
            /\ issued' = issued \cup {resp'.json.id}]_vars
    /\ [](\A i, j \in 1..Len(store) : i # j => store[i]._id # store[j]._id)
    /\ []((IsList /\ db = "Database" /\ req.query = NoCriteria
             /\ req.limit >= Len(store)) =>
            /\ {resp.body[i] : i \in 1..Len(resp.body)}
                  = {Render(store[i]) : i \in 1..Len(store)}
            /\ issued \subseteq {resp.body[i]._id : i \in 1..Len(resp.body)})

\* C7 witness: two records were created and a GET /plants with no criteria
\* returned both.
C7_Witness ==
    /\ IsList /\ db = "Database"
    /\ req.query = NoCriteria
    /\ Len(store) = 2
    /\ Cardinality(issued) = 2
    /\ Len(resp.body) = 2

\* C8: a stored record stays stored with the same field values: only a
\* successful POST /plants changes the datastore, and it only appends one
\* record; every GET leaves the datastore unchanged.
C8_OnlyCreateAppends ==
    [][/\ store' # store =>
            /\ req'.kind = "POST /plants"
            /\ resp'.status = 200
            /\ Len(store') = Len(store) + 1
            /\ SubSeq(store', 1, Len(store)) = store
       /\ req'.kind \in {"GET /", "GET /schema", "GET /plants", "GET /test"} =>
            store' = store]_vars

\* C8 witness: a GET /plants returned records of a datastore holding two.
C8_Witness ==
    /\ IsList /\ db = "Database"
    /\ Len(store) = 2
    /\ Len(resp.body) > 0

\* C9: every stored record has a name, its light, water, care_level and size
\* in their literal sets (size "medium" when the body omitted it) and a
\* price that is absent or non-negative; the seed records satisfy the same
\* enum constraints.
C9_StoredRecordsWellFormed ==
    /\ \A i \in 1..Len(store) :
          /\ "name" \in DOMAIN store[i]
          /\ store[i].light \in {"low", "medium", "bright"}
          /\ store[i].water \in {"low", "moderate", "high"}
          /\ store[i].care_level \in {"easy", "moderate", "advanced"}
          /\ store[i].size \in {"small", "medium", "large"}
          /\ store[i].price = None \/ store[i].price[1] >= 0
    /\ (IsCreate /\ resp.status = 200) =>
          /\ store[Len(store)].name = Val(req.body.name)
          /\ req.body.size = None => store[Len(store)].size = "medium"
    /\ \A i \in 1..Len(_seed_plants) :
          /\ _seed_plants[i].light \in {"low", "medium", "bright"}
          /\ _seed_plants[i].water \in {"low", "moderate", "high"}
          /\ _seed_plants[i].care_level \in {"easy", "moderate", "advanced"}
          /\ _seed_plants[i].size \in {"small", "medium", "large"}

\* C9 witness: a body without size was stored, beside a record with a price.
C9_Witness ==
    /\ IsCreate /\ resp.status = 200
    /\ req.body.size = None
    /\ Len(store) = 2
    /\ store[1].price # None

\* C10: with a datastore, a supplied q matches the stored record if and only
\* if q occurs as a case-insensitive substring of its name, scientific_name
\* or description, for every string q, in conjunction with the other
\* supplied criteria.
C10_SearchIsSubstring ==
    (IsList /\ db = "Database" /\ req.query.q # None) =>
        (Matches(BuildFilter(req.query), store[1]) <=>
            /\ SearchHolds(Val(req.query.q), store[1])
            /\ SatisfiesNonEmpty(req.query, store[1]))
====
